---------------------------- MODULE Spec2Model ----------------------------
(***************************************************************************)
(* A model of the drawdle backend (src/app.py): the static target table,   *)
(* the selection of the target of the day, the parsing of the judge's      *)
(* free text, and the two HTTP handlers GET /target and POST /submit.      *)
(*                                                                         *)
(* Time is counted in whole hours.  An instant is a number of hours since  *)
(* 1970-01-01T00:00:00Z; a parsed ISO-8601 string is a wall-clock reading  *)
(* (calendar day, hour of the day) with or without a UTC offset.           *)
(***************************************************************************)
EXTENDS Integers, Sequences, FiniteSets, TLC

VARIABLES
    TARGETS,        \* the static target table, in insertion order
    now,            \* the UTC clock, hours since the epoch
    calls,          \* the direct calls of get_daily_target_id, made and to make
    request,        \* the HTTP request being handled or last handled, or NoRequest
    judge_reply,    \* what the external service does when it is called
    response,       \* the response to that request, NoResponse until it is handled
    forwarded,      \* the calls made to the external service for that request
    client_target   \* the target id the client last got from GET /target

vars == <<TARGETS, now, calls, request, judge_reply, response, forwarded, client_target>>

(***************************************************************************)
(* Bounds of the model.                                                    *)
(***************************************************************************)
MaxTargets == 3     \* the target table holds at most this many entries
MaxPast == 1        \* date overrides reach this many days before the epoch
MaxDay == 1         \* the clock and date overrides reach this day number
MaxTextLen == 4     \* the judge's text holds at most this many tokens
MaxImageLen == 3    \* an image payload holds at most this many characters

HoursPerDay == 24

(***************************************************************************)
(* The target table.                                                       *)
(***************************************************************************)
Target(id, prompt, public_name, category, colour) ==
    [id |-> id, prompt |-> prompt, public_name |-> public_name,
     category |-> category, colour |-> colour]

\* The one entry of the source's table.
CatTarget == Target("cat", "cat", "animal", "animal", "black")

\* Further entries a filled-in table would hold ("Targets storage placeholder"):
\* each with a colour of the palette.
TargetPool ==
    << CatTarget,
       Target("dog", "a sleeping dog", "pet", "animal", "red"),
       Target("sun", "the rising sun", "sky", "nature", "yellow"),
       Target("car", "a racing car", "vehicle", "object", "blue"),
       Target("tree", "an oak tree", "plant", "nature", "green") >>

SourceTargets == << CatTarget >>

\* Tables of up to MaxTargets entries with distinct ids; each entry keeps its
\* palette colour or carries a colour outside the palette.
TargetTables ==
    { [i \in 1..n |-> IF i \in hard
                        THEN [TargetPool[i] EXCEPT !.colour = "purple"]
                        ELSE TargetPool[i]] :
        n \in 0..MaxTargets, hard \in SUBSET (1..MaxTargets) }

EasyColours == {"red", "yellow", "blue", "green", "black"}

DefaultTargetId == "cat"

\* TARGETS.get(target_id): the entries with that key (none or one).
Lookup(table, id) == { i \in 1..Len(table) : table[i].id = id }

(***************************************************************************)
(* Dates.                                                                  *)
(***************************************************************************)
\* datetime.fromisoformat / datetime.now(timezone.utc): a wall-clock reading in
\* hours (day * 24 + hour), and its UTC offset when the value is aware.
DateTime(aware, wall, offset) == [aware |-> aware, wall |-> wall, offset |-> offset]

NoOverride == [form |-> "none", day |-> 0, hour |-> 0, offset |-> 0]
EmptyOverride == [form |-> "empty", day |-> 0, hour |-> 0, offset |-> 0]
InvalidOverride == [form |-> "invalid", day |-> 0, hour |-> 0, offset |-> 0]

Days == (0 - MaxPast)..MaxDay
Hours == {0, 23}
Offsets == {0 - 5, 0, 5}

\* "2024-01-01", "2024-01-01T23:00:00": no offset.
NaiveOverrides ==
    { [form |-> "naive", day |-> d, hour |-> h, offset |-> 0] : d \in Days, h \in Hours }
\* "2024-01-01T23:00:00+05:00".
AwareOverrides ==
    { [form |-> "aware", day |-> d, hour |-> h, offset |-> o] :
        d \in Days, h \in Hours, o \in Offsets }

Raised(exc) == [ok |-> FALSE, value |-> exc]
Returned(v) == [ok |-> TRUE, value |-> v]

\* Line 30: the override parsed, or the clock read in UTC.
ParseDate(date_override, clock) ==
    CASE date_override.form \in {"none", "empty"} ->
            Returned(DateTime(TRUE, clock, 0))
      [] date_override.form = "invalid" -> Raised("ValueError")
      [] date_override.form = "naive" ->
            Returned(DateTime(FALSE, date_override.day * HoursPerDay + date_override.hour, 0))
      [] OTHER ->
            Returned(DateTime(TRUE, date_override.day * HoursPerDay + date_override.hour,
                              date_override.offset))

\* A bug that would round the day count towards zero.
DaysOfHoursTruncated(h) ==
    IF h >= 0 THEN h \div HoursPerDay ELSE 0 - ((0 - h) \div HoursPerDay)

\* timedelta.days: the whole days of a difference, rounded down.
DaysOfHours(h) == h \div HoursPerDay

\* Line 34: (dt - datetime(1970, 1, 1, tzinfo=timezone.utc)).days; subtracting an
\* aware value from a naive one raises TypeError.
DaysSinceEpoch(dt) ==
    IF dt.aware THEN Returned(DaysOfHours(dt.wall - dt.offset))
    ELSE Raised("TypeError")

\* Line 31: the keys of the entries whose colour is in the palette, in order.
RECURSIVE EasyTargets(_)
EasyTargets(table) ==
    IF table = << >> THEN << >>
    ELSE (IF Head(table).colour \in EasyColours THEN << Head(table).id >> ELSE << >>)
         \o EasyTargets(Tail(table))

\* A bug that would index the list by the day number shifted by one.
PickShifted(easy_targets, days) == easy_targets[((days + 1) % Len(easy_targets)) + 1]

\* Line 35: easy_targets[days_since_epoch % len(easy_targets)].
Pick(easy_targets, days) == easy_targets[(days % Len(easy_targets)) + 1]

\* get_daily_target_id: the id returned, or the exception raised.
GetDailyTargetId(table, date_override, clock) ==
    LET parsed == ParseDate(date_override, clock)
        easy_targets == EasyTargets(table)
    IN  IF ~parsed.ok THEN parsed
        ELSE IF easy_targets = << >> THEN Returned(DefaultTargetId)
        ELSE LET days == DaysSinceEpoch(parsed.value)
             IN  IF ~days.ok THEN days
                 ELSE Returned(Pick(easy_targets, days.value))

(***************************************************************************)
(* JSON values and Python's coercions.                                     *)
(*                                                                         *)
(* A value is [t, n, s]: its type, its number (an int's value, a bool as   *)
(* 0 or 1, a float in tenths) and its characters (a string's).  Missing    *)
(* stands for a key a dict does not hold.                                  *)
(***************************************************************************)
Missing == [t |-> "missing", n |-> 0, s |-> << >>]
JNull == [t |-> "null", n |-> 0, s |-> << >>]
JBool(b) == [t |-> "bool", n |-> IF b THEN 1 ELSE 0, s |-> << >>]
JInt(i) == [t |-> "int", n |-> i, s |-> << >>]
JFloat(tenths) == [t |-> "float", n |-> tenths, s |-> << >>]
JStr(chars) == [t |-> "str", n |-> 0, s |-> chars]

\* dict.get(key, default)
DictGet(d, key, default) == IF d[key].t = "missing" THEN default ELSE d[key]

Digits == <<"0", "1", "2", "3", "4", "5", "6", "7", "8", "9">>
DigitValue(c) == (CHOOSE i \in 1..Len(Digits) : Digits[i] = c) - 1
IsDigit(c) == \E i \in 1..Len(Digits) : Digits[i] = c

\* The value of a run of decimal digits.
RECURSIVE DecimalValue(_)
DecimalValue(chars) ==
    IF chars = << >> THEN 0
    ELSE DecimalValue(SubSeq(chars, 1, Len(chars) - 1)) * Len(Digits)
         + DigitValue(chars[Len(chars)])

\* int(str): an optional sign and at least one digit, or ValueError.
IntOfStr(chars) ==
    LET signed == chars # << >> /\ Head(chars) \in {"-", "+"}
        digits == IF signed THEN Tail(chars) ELSE chars
    IN  IF digits # << >> /\ \A i \in 1..Len(digits) : IsDigit(digits[i])
        THEN Returned(IF signed /\ Head(chars) = "-"
                      THEN 0 - DecimalValue(digits) ELSE DecimalValue(digits))
        ELSE Raised("ValueError")

TenthsPerUnit == 10

\* int(v): ints and bools as they are, a float cut towards zero, a string parsed,
\* None refused.
PyInt(v) ==
    CASE v.t \in {"int", "bool"} -> Returned(v.n)
      [] v.t = "float" -> Returned(IF v.n >= 0 THEN v.n \div TenthsPerUnit
                                   ELSE 0 - ((0 - v.n) \div TenthsPerUnit))
      [] v.t = "str" -> IntOfStr(v.s)
      [] OTHER -> Raised("TypeError")

\* bool(v), and the truth value `not v` negates.
PyBool(v) ==
    CASE v.t \in {"bool", "int", "float"} -> v.n # 0
      [] v.t = "str" -> v.s # << >>
      [] OTHER -> FALSE

(***************************************************************************)
(* The judge's text.                                                       *)
(*                                                                         *)
(* The text is a sequence of tokens: "{", "}", "x" (a run of prose) and    *)
(* "M" (a well-formed, comma-separated list of "key": value members).  The *)
(* members every "M" of a text stands for are kept beside the text.        *)
(***************************************************************************)
JudgedKeys == {"score", "guess", "correct", "color_match", "shape_match",
               "style_score", "category"}

EmptyObject == [k \in JudgedKeys |-> Missing]

IndicesOf(text, tok) == { i \in 1..Len(text) : text[i] = tok }
Min(S) == CHOOSE x \in S : \A y \in S : x <= y
Max(S) == CHOOSE x \in S : \A y \in S : x >= y

\* json.loads of a span that starts with "{" and ends with "}".
JsonLoads(span, members) ==
    CASE span = <<"{", "}">> -> Returned(EmptyObject)
      [] span = <<"{", "M", "}">> -> Returned(members)
      [] OTHER -> Raised("JSONDecodeError")

\* re.search(r"\{[\s\S]*\}", text): from the first "{" to the last "}" after it.
BraceSpan(text) ==
    LET opens == IndicesOf(text, "{")
        closes == IndicesOf(text, "}")
    IN  IF opens # {} /\ closes # {} /\ Max(closes) > Min(opens)
        THEN Returned(SubSeq(text, Min(opens), Max(closes)))
        ELSE Raised("no match")

NoneValue == [none |-> TRUE, obj |-> EmptyObject]
DictValue(obj) == [none |-> FALSE, obj |-> obj]

\* A bug that would let the decoder's exception through.
ParseJsonFromTextUncaught(text, members) ==
    IF text = << >> THEN Returned(NoneValue)
    ELSE LET m == BraceSpan(text)
         IN  IF ~m.ok THEN Returned(NoneValue)
             ELSE LET decoded == JsonLoads(m.value, members)
                  IN  IF decoded.ok THEN Returned(DictValue(decoded.value))
                      ELSE decoded

\* parse_json_from_text: the decoded object, or None.
ParseJsonFromText(text, members) ==
    IF text = << >> THEN Returned(NoneValue)
    ELSE LET m == BraceSpan(text)
         IN  IF ~m.ok THEN Returned(NoneValue)
             ELSE LET decoded == JsonLoads(m.value, members)
                  IN  IF decoded.ok THEN Returned(DictValue(decoded.value))
                      ELSE Returned(NoneValue)

(***************************************************************************)
(* Requests and responses.                                                 *)
(***************************************************************************)
NoTarget == "none"

\* add_cors_headers, applied to every response.
CorsHeaders ==
    { <<"Access-Control-Allow-Origin", "*">>,
      <<"Access-Control-Allow-Headers", "Content-Type,Authorization">>,
      <<"Access-Control-Allow-Methods", "GET,POST,OPTIONS">> }

\* jsonify(body), status
JsonResponse(status, body) ==
    [status |-> status, json |-> TRUE, body |-> body, headers |-> CorsHeaders]
\* return "", 200
EmptyResponse ==
    [status |-> 200, json |-> FALSE, body |-> [text |-> ""], headers |-> CorsHeaders]
\* No response yet.
NoResponse == [status |-> 0, json |-> FALSE, body |-> [text |-> ""], headers |-> {}]
\* An exception that leaves the view function: the framework's error page.
ErrorPage(exc) ==
    [status |-> 500, json |-> FALSE, body |-> [exception |-> exc], headers |-> CorsHeaders]

\* A request body: not JSON at all ("invalid"), JSON that is no object ("null",
\* "array"), or an object with its two fields (Missing when the key is absent).
Body(kind, image_base64, attempt) ==
    [kind |-> kind, image_base64 |-> image_base64, attempt |-> attempt]
NoBody == Body("none", Missing, Missing)

Request(endpoint, method, body) == [endpoint |-> endpoint, method |-> method, body |-> body]
NoRequest == Request("none", "none", NoBody)

\* get_target: today's target without its prompt, or 404.
GetTarget(table, clock) ==
    LET id == GetDailyTargetId(table, NoOverride, clock)
        found == Lookup(table, id.value)
    IN  IF ~id.ok THEN ErrorPage(id.value)
        ELSE IF found = {} THEN JsonResponse(404, [error |-> "No target found"])
        ELSE LET target == table[CHOOSE i \in found : TRUE]
             IN  JsonResponse(200, [target_id |-> id.value,
                                    public_name |-> target.public_name,
                                    colour |-> target.colour,
                                    category |-> target.category])

\* A bug that would keep what follows the last separator.
StripPrefixLast(chars) ==
    LET commas == IndicesOf(chars, ",")
    IN  IF commas = {} THEN chars ELSE SubSeq(chars, Max(commas) + 1, Len(chars))

\* Line 92: image_base64.split(",", 1)[1] if "," in image_base64 else image_base64
StripPrefix(chars) ==
    LET commas == IndicesOf(chars, ",")
    IN  IF commas = {} THEN chars ELSE SubSeq(chars, Min(commas) + 1, Len(chars))

\* What the external service does when called: it raises, or it returns a text.
JudgeReply(raises, text, members) ==
    [raises |-> raises, text |-> text, members |-> members]

\* Lines 103-113: the one call of client.responses.create.
ServiceCall(target, img_data) ==
    [model |-> "gpt-4o-mini", temperature |-> 0,
     target |-> target.prompt, colour |-> target.colour, category |-> target.category,
     image |-> img_data]

\* The outcome of the body of the try block: a response, or the exception raised,
\* with the calls made to the external service on the way.
Done(resp, sent) == [ok |-> TRUE, value |-> resp, sent |-> sent]
Fail(exc, sent) == [ok |-> FALSE, value |-> exc, sent |-> sent]

\* A bug that would substitute the default for a value int() refuses.
NormaliseLenient(parsed, target, target_id, sent) ==
    LET score == PyInt(DictGet(parsed, "score", JInt(0)))
        style_score == PyInt(DictGet(parsed, "style_score", JInt(0)))
    IN  Done(JsonResponse(200,
                 [success |-> PyBool(DictGet(parsed, "correct", JNull)),
                  score |-> IF score.ok THEN score.value ELSE 0,
                  guess |-> DictGet(parsed, "guess", JStr(<< >>)),
                  category |-> DictGet(parsed, "category", JStr(<< >>)),
                  color_match |-> PyBool(DictGet(parsed, "color_match", JNull)),
                  shape_match |-> PyBool(DictGet(parsed, "shape_match", JNull)),
                  style_score |-> IF style_score.ok THEN style_score.value ELSE 0,
                  expected_category |-> target.category,
                  expected_colour |-> target.colour,
                  target_id |-> target_id]), sent)

\* Lines 117-128: the normalised judgment beside the expected values.
Normalise(parsed, target, target_id, sent) ==
    LET score == PyInt(DictGet(parsed, "score", JInt(0)))
        style_score == PyInt(DictGet(parsed, "style_score", JInt(0)))
    IN  IF ~score.ok THEN Fail(score.value, sent)
        ELSE IF ~style_score.ok THEN Fail(style_score.value, sent)
        ELSE Done(JsonResponse(200,
                 [success |-> PyBool(DictGet(parsed, "correct", JNull)),
                  score |-> score.value,
                  guess |-> DictGet(parsed, "guess", JStr(<< >>)),
                  category |-> DictGet(parsed, "category", JStr(<< >>)),
                  color_match |-> PyBool(DictGet(parsed, "color_match", JNull)),
                  shape_match |-> PyBool(DictGet(parsed, "shape_match", JNull)),
                  style_score |-> style_score.value,
                  expected_category |-> target.category,
                  expected_colour |-> target.colour,
                  target_id |-> target_id]), sent)

\* Lines 88-128: the judging of an image against a resolved target.
Judge(image_base64, target, target_id, reply) ==
    IF image_base64.t # "str" THEN Fail("TypeError", << >>)
    ELSE LET sent == << ServiceCall(target, StripPrefix(image_base64.s)) >>
         IN  IF reply.raises THEN Fail("APIError", sent)
             ELSE LET parsed == ParseJsonFromText(reply.text, reply.members)
                  IN  IF ~parsed.ok THEN Fail(parsed.value, sent)
                      ELSE Normalise(parsed.value.obj, target, target_id, sent)

\* Lines 79-128: the body of the try block of submit.
SubmitTry(table, clock, body, reply) ==
    IF body.kind = "invalid" THEN Fail("BadRequest", << >>)
    ELSE IF body.kind # "object" THEN Fail("AttributeError", << >>)
    ELSE LET image_base64 == DictGet(body, "image_base64", JNull)
             attempt == PyInt(DictGet(body, "attempt", JInt(1)))
             id == GetDailyTargetId(table, NoOverride, clock)
             found == Lookup(table, id.value)
         IN  IF ~attempt.ok THEN Fail(attempt.value, << >>)
             ELSE IF ~id.ok THEN Fail(id.value, << >>)
             ELSE IF ~PyBool(image_base64) \/ found = {}
                  THEN Done(JsonResponse(400,
                               [success |-> FALSE,
                                message |-> "Missing image or invalid target"]), << >>)
             ELSE Judge(image_base64, table[CHOOSE i \in found : TRUE], id.value, reply)

\* A bug that would leave out the handler's except clause.
SubmitUncaught(table, clock, method, body, reply) ==
    LET tried == SubmitTry(table, clock, body, reply)
    IN  IF method = "OPTIONS" THEN [response |-> EmptyResponse, sent |-> << >>]
        ELSE IF tried.ok THEN [response |-> tried.value, sent |-> tried.sent]
        ELSE [response |-> ErrorPage(tried.value), sent |-> tried.sent]

\* submit: the response and the calls made to the external service.
Submit(table, clock, method, body, reply) ==
    LET tried == SubmitTry(table, clock, body, reply)
    IN  IF method = "OPTIONS" THEN [response |-> EmptyResponse, sent |-> << >>]
        ELSE IF tried.ok THEN [response |-> tried.value, sent |-> tried.sent]
        ELSE [response |-> JsonResponse(500, [success |-> FALSE, message |-> tried.value]),
              sent |-> tried.sent]

(***************************************************************************)
(* The inputs.                                                             *)
(***************************************************************************)
\* The instants the clock shows: the first and the last hour of each day.
ClockInstants == { d * HoursPerDay + h : d \in 0..MaxDay, h \in Hours }

\* A direct call of get_daily_target_id: its override, the clock it reads when
\* there is none, and its result once it is made.
NotCalled == Raised("not called")
CallInput(date_override, clock) ==
    [input |-> date_override, clock |-> clock, called |-> FALSE, result |-> NotCalled]
CallInputs ==
    { CallInput(o, 0) : o \in {InvalidOverride} \cup NaiveOverrides \cup AwareOverrides }
    \cup { CallInput(o, t) : o \in {NoOverride, EmptyOverride}, t \in ClockInstants }

RECURSIVE SeqsUpTo(_, _)
SeqsUpTo(S, n) ==
    IF n = 0 THEN { << >> }
    ELSE LET shorter == SeqsUpTo(S, n - 1)
         IN  shorter \cup { Append(q, x) : q \in shorter, x \in S }

\* "d" stands for the characters of a data-URI header, "A" for base64 content.
ImageChars == {"d", ",", "A"}
ImagePayloads == SeqsUpTo(ImageChars, MaxImageLen)

ImageValues ==
    {Missing, JNull, JInt(0), JInt(5)} \cup { JStr(p) : p \in ImagePayloads }
AttemptValues == {Missing, JNull, JInt(2), JStr(<<"3">>), JStr(<<"x">>)}

Bodies ==
    {Body("invalid", Missing, Missing), Body("null", Missing, Missing),
     Body("array", Missing, Missing)}
    \cup { Body("object", i, a) : i \in ImageValues, a \in AttemptValues }

GoodBody == Body("object", JStr(<<"d", ",", "A">>), Missing)

TextTokens == {"{", "}", "x", "M"}
Texts == SeqsUpTo(TextTokens, MaxTextLen)

Object(score, guess, correct, color_match, shape_match, style_score, category) ==
    [score |-> score, guess |-> guess, correct |-> correct,
     color_match |-> color_match, shape_match |-> shape_match,
     style_score |-> style_score, category |-> category]

Animal == JStr(<<"a", "n", "i", "m", "a", "l">>)
Dog == JStr(<<"d", "o", "g">>)

\* {"score": 90, "correct": true, "category": "animal"}
ExampleObject == Object(JInt(90), Missing, JBool(TRUE), Missing, Missing, Missing, Animal)

Objects ==
    { Object(score, guess, correct, color_match, shape_match, style_score, category) :
        score \in {Missing, JNull, JInt(90), JInt(150), JFloat(0 - 725),
                   JStr(<<"9", "0">>), JStr(<<"a">>)},
        guess \in {Missing, Dog},
        correct \in {Missing, JBool(TRUE), JBool(FALSE), JStr(<<"n", "o">>)},
        color_match \in {Missing, JInt(1)},
        shape_match \in {Missing, JBool(FALSE)},
        style_score \in {Missing, JNull, JInt(40)},
        category \in {Missing, Animal} }

\* "Here you go: {...}"
ExampleText == <<"x", "{", "M", "}">>
ExampleReply == JudgeReply(FALSE, ExampleText, ExampleObject)
FailingReply == JudgeReply(TRUE, << >>, EmptyObject)
ProseReply == JudgeReply(FALSE, <<"x">>, EmptyObject)
NoReply == JudgeReply(FALSE, << >>, EmptyObject)

Case(req, reply) == [request |-> req, reply |-> reply]

\* The requests: GET /target, OPTIONS /submit, and the submissions: every body
\* with a few replies, and a well-formed body with every text and with every object.
RequestCases ==
    { Case(Request("/submit", "POST", b), r) :
        b \in Bodies, r \in {ExampleReply, FailingReply, ProseReply} }
    \cup { Case(Request("/submit", "POST", GoodBody), JudgeReply(FALSE, t, o)) :
            t \in Texts, o \in {ExampleObject, EmptyObject} }
    \cup { Case(Request("/submit", "POST", GoodBody), JudgeReply(FALSE, t, o)) :
            t \in {<<"{", "M", "}">>, ExampleText}, o \in Objects }
    \cup { Case(Request("/submit", "OPTIONS", NoBody), NoReply),
           Case(Request("/target", "GET", NoBody), NoReply) }

\* The requests of a client that asks for the target and submits drawings.
FlowCases ==
    { Case(Request("/target", "GET", NoBody), NoReply),
      Case(Request("/submit", "OPTIONS", NoBody), NoReply) }
    \cup { Case(Request("/submit", "POST", b), r) :
            b \in {GoodBody, Body("object", Missing, JInt(2)), Body("invalid", Missing, Missing)},
            r \in {ExampleReply, FailingReply} }

(***************************************************************************)
(* The actions.                                                            *)
(***************************************************************************)
\* Time passes.
Tick ==
    /\ \E t \in ClockInstants : t > now /\ now' = t
    /\ UNCHANGED <<TARGETS, calls, request, judge_reply, response, forwarded, client_target>>

\* get_daily_target_id(date_override) is called, for the first call not yet made;
\* a call without an override is made when the clock shows the call's instant.
Select ==
    \E i \in 1..Len(calls) :
        /\ ~calls[i].called
        /\ \A j \in 1..(i - 1) : calls[j].called
        /\ LET reads == calls[i].input.form \in {"none", "empty"}
               clock == IF reads THEN calls[i].clock ELSE now
           IN  /\ clock >= now
               /\ now' = clock
               /\ calls' = [calls EXCEPT ![i].called = TRUE,
                                         ![i].result = GetDailyTargetId(TARGETS, calls[i].input, clock)]
        /\ UNCHANGED <<TARGETS, request, judge_reply, response, forwarded, client_target>>

\* The client, answered or not yet started, sends its next request.
Send(req, reply) ==
    /\ request = NoRequest \/ response.status # 0
    /\ request' = req
    /\ judge_reply' = reply
    /\ response' = NoResponse
    /\ forwarded' = << >>
    /\ UNCHANGED <<TARGETS, now, calls, client_target>>

\* GET /target is handled; the client keeps the target id of a 200.
HandleTarget ==
    /\ request.endpoint = "/target" /\ request.method = "GET"
    /\ response.status = 0
    /\ response' = GetTarget(TARGETS, now)
    /\ client_target' = IF response'.status = 200 THEN response'.body.target_id
                        ELSE client_target
    /\ UNCHANGED <<TARGETS, now, calls, request, judge_reply, forwarded>>

\* POST or OPTIONS /submit is handled.
HandleSubmit ==
    /\ request.endpoint = "/submit" /\ request.method \in {"POST", "OPTIONS"}
    /\ response.status = 0
    /\ LET done == Submit(TARGETS, now, request.method, request.body, judge_reply)
       IN  /\ response' = done.response
           /\ forwarded' = done.sent
    /\ UNCHANGED <<TARGETS, now, calls, request, judge_reply, client_target>>

(***************************************************************************)
(* The specifications.                                                     *)
(***************************************************************************)
Idle ==
    /\ calls = << >>
    /\ request = NoRequest
    /\ judge_reply = NoReply
    /\ response = NoResponse
    /\ forwarded = << >>
    /\ client_target = NoTarget

\* The service with any target table, serving one client after the other.
Init ==
    /\ TARGETS \in TargetTables
    /\ now = 0
    /\ Idle

Next ==
    \/ Tick
    \/ \E c \in FlowCases : Send(c.request, c.reply)
    \/ HandleTarget
    \/ HandleSubmit

Spec == Init /\ [][Next]_vars

\* The selection of the target: two direct calls, with and without an override.
InitSelect ==
    /\ TARGETS \in TargetTables
    /\ now = 0
    /\ calls \in { << a, b >> : a \in CallInputs, b \in CallInputs }
    /\ request = NoRequest
    /\ judge_reply = NoReply
    /\ response = NoResponse
    /\ forwarded = << >>
    /\ client_target = NoTarget

NextSelect == Select

SpecSelect == InitSelect /\ [][NextSelect]_vars

\* The source's table and one request in flight.
InitRequest ==
    /\ TARGETS = SourceTargets
    /\ now \in ClockInstants
    /\ calls = << >>
    /\ \E c \in RequestCases : request = c.request /\ judge_reply = c.reply
    /\ response = NoResponse
    /\ forwarded = << >>
    /\ client_target = NoTarget

NextRequest ==
    \/ HandleTarget
    \/ HandleSubmit

SpecRequest == InitRequest /\ [][NextRequest]_vars

(***************************************************************************)
(* The target of the day (checked under SpecSelect).                       *)
(***************************************************************************)
\* A call made at an instant: with an aware override, or reading the clock.
AtInstant(c) == c.called /\ c.input.form \in {"aware", "none", "empty"}

\* The UTC calendar day of a call's instant, by the calendar: an aware reading
\* moved to UTC stays on its day or crosses one midnight; a clock reading lies
\* within its day.
UtcDay(c) ==
    IF c.input.form = "aware"
    THEN LET utc_hour == c.input.hour - c.input.offset
         IN  c.input.day + (IF utc_hour < 0 THEN 0 - 1
                            ELSE IF utc_hour >= HoursPerDay THEN 1 ELSE 0)
    ELSE CHOOSE d \in 0..MaxDay :
            d * HoursPerDay <= c.clock /\ c.clock < (d + 1) * HoursPerDay

MadeCalls == { i \in 1..Len(calls) : AtInstant(calls[i]) }

\* C1: two calls made at instants of the same UTC calendar day, whatever their
\* time of day, offset or form, return the same target id.
C1_SameUtcDaySameTarget ==
    \A i, j \in MadeCalls :
        UtcDay(calls[i]) = UtcDay(calls[j]) => calls[i].result = calls[j].result

\* Two calls on one UTC day before the epoch, at different hours, with a choice
\* among several easy targets.
C1_Witness ==
    /\ MadeCalls = {1, 2}
    /\ Len(EasyTargets(TARGETS)) >= 2
    /\ UtcDay(calls[1]) = UtcDay(calls[2])
    /\ UtcDay(calls[1]) < 0
    /\ calls[1].input.hour - calls[1].input.offset # calls[2].input.hour - calls[2].input.offset
    /\ calls[1].result.ok /\ calls[2].result.ok

AllEasy == Len(TARGETS) >= 1 /\ \A k \in 1..Len(TARGETS) : TARGETS[k].colour \in EasyColours

Distance(a, b) == IF a >= b THEN a - b ELSE b - a

\* C2: with N >= 1 targets, all of an easy colour, a call returns the entry at
\* position (day mod N) in insertion order; calls N days apart return the same
\* id, and calls less than N days apart on different days return different ids
\* (so N consecutive days visit each target once).
C2_PeriodicSelection ==
    AllEasy =>
        LET N == Len(TARGETS)
        IN  /\ \A i \in MadeCalls :
                  calls[i].result = Returned(TARGETS[(UtcDay(calls[i]) % N) + 1].id)
            /\ \A i, j \in MadeCalls :
                  /\ Distance(UtcDay(calls[i]), UtcDay(calls[j])) = N
                        => calls[i].result = calls[j].result
                  /\ ( /\ Distance(UtcDay(calls[i]), UtcDay(calls[j])) > 0
                       /\ Distance(UtcDay(calls[i]), UtcDay(calls[j])) < N )
                        => calls[i].result # calls[j].result

\* Three easy targets and two calls three days apart, one before the epoch.
C2_Witness ==
    /\ AllEasy /\ Len(TARGETS) = 3
    /\ MadeCalls = {1, 2}
    /\ UtcDay(calls[1]) < 0
    /\ UtcDay(calls[2]) = UtcDay(calls[1]) + 3
    /\ calls[1].result = calls[2].result

\* C3: a call with no override or with an override of an accepted form returns
\* an id and never raises; with no easy target it returns the default id.
C3_NeverRaises ==
    \A i \in 1..Len(calls) :
        (calls[i].called /\ calls[i].input.form # "invalid") =>
            /\ calls[i].result.ok
            /\ EasyTargets(TARGETS) = << >> => calls[i].result = Returned(DefaultTargetId)

(***************************************************************************)
(* The handlers (checked under SpecRequest and Spec).                      *)
(***************************************************************************)
Answered(endpoint, method) ==
    /\ request.endpoint = endpoint /\ request.method = method
    /\ response.status # 0

\* C4: a POST /submit whose body is an object without image_base64 is answered
\* 400 with success false and the missing-image message, whatever attempt is.
C4_MissingImageIs400 ==
    ( /\ Answered("/submit", "POST")
      /\ request.body.kind = "object"
      /\ request.body.image_base64 = Missing )
    => /\ response.status = 400
       /\ response.body.success = FALSE
       /\ response.body.message = "Missing image or invalid target"

\* The judge was called once and returned a text.
JudgeAnswered ==
    /\ Answered("/submit", "POST")
    /\ Len(forwarded) = 1
    /\ ~judge_reply.raises

\* The text holds a "{" with a "}" after it.
HasBraceSpan(text) ==
    \E i, j \in 1..Len(text) : i < j /\ text[i] = "{" /\ text[j] = "}"

\* The text from the first "{" through the last "}".
OuterSpan(text) ==
    LET i == CHOOSE a \in 1..Len(text) :
                 text[a] = "{" /\ \A b \in 1..(a - 1) : text[b] # "{"
        j == CHOOSE a \in 1..Len(text) :
                 text[a] = "}" /\ \A b \in (a + 1)..Len(text) : text[b] # "}"
    IN  [k \in 1..(j - i + 1) |-> text[i + k - 1]]

\* A JSON object: braces around nothing or around one member list.
IsJsonObject(span) == span \in { <<"{", "}">>, <<"{", "M", "}">> }

DefaultJudgment(body) ==
    /\ body.score = 0 /\ body.style_score = 0
    /\ body.success = FALSE /\ body.color_match = FALSE /\ body.shape_match = FALSE
    /\ body.guess = JStr(<< >>) /\ body.category = JStr(<< >>)

\* C5: when the judge's text holds no brace span, or its span from the first "{"
\* through the last "}" is no valid JSON, the answer is 200 with every judged
\* field at its default.
C5_UnparseableTextGivesDefaults ==
    ( /\ JudgeAnswered
      /\ \/ ~HasBraceSpan(judge_reply.text)
         \/ ~IsJsonObject(OuterSpan(judge_reply.text)) )
    => /\ response.status = 200
       /\ DefaultJudgment(response.body)

\* A text with two objects side by side: a span, but no valid JSON.
C5_Witness ==
    /\ JudgeAnswered
    /\ judge_reply.text = <<"{", "}", "{", "}">>
    /\ judge_reply.members = ExampleObject
    /\ response.status = 200

\* The prompt of the target a response names.
PromptOf(id) == TARGETS[CHOOSE i \in 1..Len(TARGETS) : TARGETS[i].id = id].prompt

\* C6: neither the body of GET /target nor the expected fields of a POST /submit
\* answer carry the value of the selected target's prompt.
C6_PromptNeverExposed ==
    /\ (Answered("/target", "GET") /\ response.status = 200) =>
          PromptOf(response.body.target_id) \notin
              { response.body.target_id, response.body.public_name,
                response.body.colour, response.body.category }
    /\ (Answered("/submit", "POST") /\ response.status = 200) =>
          PromptOf(response.body.target_id) \notin
              { response.body.expected_category, response.body.expected_colour,
                response.body.target_id }

\* The payload after its first "," when it holds one, else the payload.
IsStripped(image, payload) ==
    IF \E k \in 1..Len(payload) : payload[k] = ","
    THEN \E k \in 1..Len(payload) :
            /\ payload[k] = ","
            /\ \A b \in 1..(k - 1) : payload[b] # ","
            /\ Len(image) = Len(payload) - k
            /\ \A b \in 1..Len(image) : image[b] = payload[k + b]
    ELSE image = payload

\* C7: the image forwarded to the external service is the payload after its
\* first "," when it holds one, and the payload unchanged when it holds none.
C7_ForwardedImageIsStripped ==
    \A c \in 1..Len(forwarded) :
        /\ request.body.image_base64.t = "str"
        /\ IsStripped(forwarded[c].image, request.body.image_base64.s)

\* A payload with two separators: what follows the first is forwarded.
C7_Witness ==
    /\ Len(forwarded) = 1
    /\ request.body.image_base64 = JStr(<<",", "A", ",">>)
    /\ forwarded[1].image = <<"A", ",">>

\* The exception a malformed body raises.
BodyException(body) ==
    IF body.kind = "invalid" THEN "BadRequest"
    ELSE IF body.kind \in {"null", "array"} THEN "AttributeError"
    ELSE IF body.attempt.t = "null" THEN "TypeError"
    ELSE IF body.attempt.t = "str" /\ \E k \in 1..Len(body.attempt.s) : ~IsDigit(body.attempt.s[k])
         THEN "ValueError"
    ELSE IF body.image_base64.t = "int" /\ body.image_base64.n # 0 THEN "TypeError"
    ELSE "none"

\* C8: a POST /submit is answered in JSON; the external service is called at
\* most once, and not at all for a 400; a malformed body or a raising service
\* gives 500 with success false, the exception's message and no judged field.
C8_OneJsonResponseNoRetry ==
    Answered("/submit", "POST") =>
        /\ response.json
        /\ response.status \in {200, 400, 500}
        /\ Len(forwarded) <= 1
        /\ response.status = 400 => forwarded = << >>
        /\ BodyException(request.body) # "none" =>
              /\ response.status = 500
              /\ response.body = [success |-> FALSE, message |-> BodyException(request.body)]
              /\ forwarded = << >>
        /\ (forwarded # << >> /\ judge_reply.raises) =>
              /\ response.status = 500
              /\ response.body = [success |-> FALSE, message |-> "APIError"]
        /\ response.status = 500 => DOMAIN response.body \cap JudgedKeys = {}

\* The service raised after its one call, and the answer is the 500.
C8_Witness ==
    /\ Answered("/submit", "POST")
    /\ Len(forwarded) = 1 /\ judge_reply.raises
    /\ response.status = 500 /\ response.json

\* The judge's text yields a decoded object.
Decoded ==
    /\ JudgeAnswered
    /\ HasBraceSpan(judge_reply.text)
    /\ IsJsonObject(OuterSpan(judge_reply.text))

DecodedObject ==
    IF OuterSpan(judge_reply.text) = <<"{", "}">> THEN EmptyObject ELSE judge_reply.members

\* A value int() accepts: a number, or a string of digits with an optional sign.
Coercible(v) ==
    \/ v.t \in {"missing", "int", "bool", "float"}
    \/ /\ v.t = "str"
       /\ LET digits == IF v.s # << >> /\ Head(v.s) \in {"-", "+"} THEN Tail(v.s) ELSE v.s
          IN  digits # << >> /\ \A k \in 1..Len(digits) : IsDigit(digits[k])

\* The integer of a judged number: the default when missing, an int as it is
\* (in range or not), anything else as int() gives it.
IntegerOf(v) ==
    CASE v.t = "missing" -> 0
      [] v.t = "int" -> v.n
      [] OTHER -> PyInt(v).value

\* The truth value of a judged flag: false when missing, a bool as it is.
TruthOf(v) ==
    CASE v.t = "missing" -> FALSE
      [] v.t = "bool" -> v.n = 1
      [] OTHER -> PyBool(v)

TextOf(v) == IF v.t = "missing" THEN JStr(<< >>) ELSE v

\* C9: the answer to a decoded object is its normalisation: each judged field
\* takes the object's value or its default, numbers as integers (unclamped),
\* flags by truthiness; a number int() refuses gives 500 instead of 200.
C9_NormalisedJudgment ==
    Decoded =>
        LET obj == DecodedObject
        IN  IF Coercible(obj.score) /\ Coercible(obj.style_score)
            THEN /\ response.status = 200
                 /\ response.body.score = IntegerOf(obj.score)
                 /\ response.body.style_score = IntegerOf(obj.style_score)
                 /\ response.body.success = TruthOf(obj.correct)
                 /\ response.body.color_match = TruthOf(obj.color_match)
                 /\ response.body.shape_match = TruthOf(obj.shape_match)
                 /\ response.body.guess = TextOf(obj.guess)
                 /\ response.body.category = TextOf(obj.category)
            ELSE response.status = 500

\* The spec's example with an out-of-range style score: passed through.
C9_Witness ==
    /\ Decoded
    /\ judge_reply.text = ExampleText
    /\ judge_reply.members = [ExampleObject EXCEPT !.style_score = JInt(40)]
    /\ response.status = 200
    /\ response.body.score = 90 /\ response.body.style_score = 40
    /\ response.body.success /\ response.body.category = Animal
    /\ response.body.guess = JStr(<< >>)

=============================================================================
